---- MODULE Spec2Model ----
(***************************************************************************)
(* A model of maquette-query: the test projector (src/test-projector.ts)   *)
(* with its lazy query handles, and the older query / simulator facade     *)
(* (query.ts with its simulator).                                          *)
(*                                                                         *)
(* JavaScript strings are sequences of one-character strings.  An optional *)
(* value (a possibly undefined number, object or event) is a set with at   *)
(* most one element: {} is undefined.                                      *)
(***************************************************************************)
EXTENDS Integers, Sequences, FiniteSets, TLC

VARIABLES
    renderMaquetteFunction, \* test-projector.ts:143 the producer bound to the projector
    produced,               \* the tree each producer function returns when it is called
    handle,                 \* the query handle the test currently holds
    last,                   \* the test's last step and what it returned or threw
    walk,                   \* filterDescendants under test: its input and its result
    sel,                    \* a compiled selector under test: its input and its result
    sim,                    \* the simulator: the node's properties and the last call
    mq                      \* a MaquetteQuery object of query.ts and its last read

vars == <<renderMaquetteFunction, produced, handle, last, walk, sel, sim, mq>>

-----------------------------------------------------------------------------
(* Bounds of the model *)

MaxFragments == 2     \* class / id fragments after the tag of a generated selector
MaxPatternLen == 3    \* characters of a generated string pattern
MaxNodes == 4         \* nodes of a generated tree
MaxChain == 2         \* chained calls behind a held handle
MaxIndex == 1         \* largest index passed to getChild / getResult

-----------------------------------------------------------------------------
(* JavaScript strings *)

Alphabet == {"a", "b", ".", "#"}

\* String.prototype.indexOf: the first 0-based index where p occurs in s, else -1
IndexOf(s, p) ==
    LET hits == {i \in 0..(Len(s) - Len(p)) : SubSeq(s, i + 1, i + Len(p)) = p}
    IN  IF hits = {} THEN -1 ELSE CHOOSE i \in hits : \A j \in hits : i <= j

\* String.prototype.charAt: the empty string outside the string
CharAt(s, i) == IF i >= 0 /\ i < Len(s) THEN s[i + 1] ELSE ""

RECURSIVE Concat(_)
Concat(ss) == IF ss = <<>> THEN <<>> ELSE Head(ss) \o Concat(Tail(ss))

RECURSIVE SeqsUpTo(_, _)
SeqsUpTo(S, n) ==
    IF n = 0 THEN {<<>>}
    ELSE LET shorter == SeqsUpTo(S, n - 1)
         IN  shorter \cup {Append(s, x) : s \in shorter, x \in S}

-----------------------------------------------------------------------------
(* Selectors: a string, a predicate function, or anything else *)

StringSelector(s) == [type |-> "string", str |-> s, fn |-> "none"]
FunctionSelector(f) == [type |-> "function", str |-> <<>>, fn |-> f]
OtherSelector == [type |-> "number", str |-> <<>>, fn |-> "none"]

\* the predicate functions a test passes in: vnode => true, and
\* vnode => vnode.vnodeSelector === 'div'
PredicateFunctions == {"any", "isDiv"}

Div == <<"d", "i", "v">>
Here == <<".", "h", "e", "r", "e">>
DivHere == Div \o Here
DivHereToo == DivHere \o <<".", "t", "o", "o">>
DivAndHereToo == Div \o <<".", "a", "n", "d">> \o Here \o <<".", "t", "o", "o">>

applyFunction(f, vnodeSelector) ==
    IF f = "any" THEN TRUE ELSE vnodeSelector = Div

\* the closure returned for a string selector
stringPredicate(selector, vnodeSelector) ==
    LET index == IndexOf(vnodeSelector, selector)
        first == CharAt(selector, 0)
    IN  IF (IF first = "." \/ first = "#" THEN index > 0 ELSE index = 0)
        THEN LET nextChar == CharAt(vnodeSelector, index + Len(selector))
             IN  nextChar = "" \/ nextChar = "." \/ nextChar = "#"
        ELSE FALSE

\* makeSelectorFunction: the predicate, or the throw of 'Invalid selector'
makeSelectorFunction(selector) ==
    IF selector.type = "string" THEN [threw |-> FALSE, predicate |-> selector]
    ELSE IF selector.type = "function" THEN [threw |-> FALSE, predicate |-> selector]
    ELSE [threw |-> TRUE, predicate |-> selector]

\* a call of a predicate that makeSelectorFunction returned
predicate(p, vnodeSelector) ==
    IF p.type = "string" THEN stringPredicate(p.str, vnodeSelector)
    ELSE applyFunction(p.fn, vnodeSelector)

\* query.ts has its own copy of makeSelectorFunction: the function test comes first
query_makeSelectorFunction(selector) ==
    IF selector.type = "function" THEN [threw |-> FALSE, predicate |-> selector]
    ELSE IF selector.type = "string" THEN [threw |-> FALSE, predicate |-> selector]
    ELSE [threw |-> TRUE, predicate |-> selector]

-----------------------------------------------------------------------------
(* The selector compiler under test *)

Tags == {<<"a">>, <<"a", "b">>}
Fragments == {<<".", "a">>, <<".", "a", "b">>, <<".", "b">>, <<"#", "a">>}

\* a tag followed by zero or more '.class' / '#id' fragments
GeneratedVNodeSelectors ==
    {t \o Concat(fs) : t \in Tags, fs \in SeqsUpTo(Fragments, MaxFragments)}

GeneratedSelectors ==
    {StringSelector(p) : p \in SeqsUpTo(Alphabet, MaxPatternLen)}
    \cup {FunctionSelector(f) : f \in PredicateFunctions}
    \cup {OtherSelector}

IdleSel == [selector |-> OtherSelector, vnodeSelector |-> <<>>, state |-> "idle",
            threw |-> FALSE, matched |-> FALSE]

InitSel ==
    sel \in {[selector |-> s, vnodeSelector |-> v, state |-> "input",
              threw |-> FALSE, matched |-> FALSE] :
                s \in GeneratedSelectors,
                v \in GeneratedVNodeSelectors \cup {Div, DivHere, DivAndHereToo}}

\* makeSelectorFunction(selector)(vNode)
ApplySelector ==
    /\ sel.state = "input"
    /\ LET made == makeSelectorFunction(sel.selector)
       IN  sel' = [sel EXCEPT !.state = "done",
                              !.threw = made.threw,
                              !.matched = IF made.threw THEN FALSE
                                          ELSE predicate(made.predicate, sel.vnodeSelector)]
    /\ UNCHANGED <<renderMaquetteFunction, produced, handle, last, walk, sim, mq>>

-----------------------------------------------------------------------------
(* Virtual-node trees.  Node 1 is the root; children[n] is the children    *)
(* array of node n, and a node in `absent` has children === undefined (a   *)
(* node that carries only text).  Node 0 is the object                     *)
(* { children: [getRootVNode()] } that createTestProjector wraps the root  *)
(* in.                                                                     *)

NoTree == [sel |-> <<>>, children |-> <<>>, absent |-> {}]

Nodes(t) == 1..Len(t.sel)

hasChildren(t, n) == n = 0 \/ n \notin t.absent

childrenOf(t, n) == IF n = 0 THEN <<1>> ELSE t.children[n]

RECURSIVE SortedSeq(_)
SortedSeq(S) ==
    IF S = {} THEN <<>>
    ELSE LET m == CHOOSE x \in S : \A y \in S : x <= y
         IN  <<m>> \o SortedSeq(S \ {m})

\* the tree whose node i has parent par[i] (par[1] = 0), siblings in id order
TreeOfParents(par, sels, textLeaves) ==
    LET n == Len(sels)
        kids == [i \in 1..n |-> SortedSeq({c \in 1..n : par[c] = i})]
    IN  [sel |-> sels, children |-> kids,
         absent |-> IF textLeaves THEN {i \in 1..n : kids[i] = <<>>} ELSE {}]

ParentArrays(n) == {par \in [1..n -> 0..n] : \A i \in 1..n : par[i] < i /\ (par[i] = 0 <=> i = 1)}

GeneratedTrees ==
    UNION {{TreeOfParents(par, sels, tl) :
                par \in ParentArrays(n), sels \in [1..n -> {Div, DivHere}], tl \in BOOLEAN} :
           n \in 1..MaxNodes}

\* part_000:7-13  div > [div.here, div > [div.here.too, div.and.here.too]]
ExampleTree ==
    [sel |-> <<Div, DivHere, Div, DivHereToo, DivAndHereToo>>,
     children |-> << <<2, 3>>, <<>>, <<4, 5>>, <<>>, <<>> >>,
     absent |-> {}]

\* h('div', 'text'): the children are undefined
TextTree == [sel |-> <<Div>>, children |-> << <<>> >>, absent |-> {1}]

\* h('div.here', [h('div'), h('div.here')])
FlatTree ==
    [sel |-> <<DivHere, Div, DivHere>>, children |-> << <<2, 3>>, <<>>, <<>> >>, absent |-> {}]

SampleTrees == {ExampleTree, TextTree, FlatTree}

SampleSelectors ==
    {StringSelector(Here), StringSelector(Div), FunctionSelector("isDiv"), OtherSelector}

ValidSelectors == {s \in SampleSelectors : s.type # "number"}

\* a variant that also tests the node the search starts at, as findAll of query.ts does
filterDescendantsWithRoot(t, root, p) ==
    LET RECURSIVE walkFrom(_)
        walkFrom(n) ==
            LET RECURSIVE each(_)
                each(cs) == IF cs = <<>> THEN <<>>
                            ELSE walkFrom(Head(cs)) \o each(Tail(cs))
            IN  (IF n # 0 /\ predicate(p, t.sel[n]) THEN <<n>> ELSE <<>>)
                \o (IF hasChildren(t, n) THEN each(childrenOf(t, n)) ELSE <<>>)
    IN  walkFrom(root)

RECURSIVE visit(_, _, _)
RECURSIVE forEachChild(_, _, _)

\* the body of the forEach over vnodeTree.children
forEachChild(t, cs, p) ==
    IF cs = <<>> THEN <<>>
    ELSE LET child == Head(cs)
         IN  (IF predicate(p, t.sel[child]) THEN <<child>> ELSE <<>>)
             \o visit(t, child, p)
             \o forEachChild(t, Tail(cs), p)

visit(t, vnodeTree, p) ==
    IF hasChildren(t, vnodeTree) THEN forEachChild(t, childrenOf(t, vnodeTree), p) ELSE <<>>

\* filterDescendants(root, predicate): the ids of the nodes pushed to results
filterDescendants(t, root, p) == visit(t, root, p)

-----------------------------------------------------------------------------
(* Document order, stated from the parent relation *)

Parent(t, c) ==
    IF c = 1 THEN 0
    ELSE CHOOSE n \in Nodes(t) : \E i \in 1..Len(t.children[n]) : t.children[n][i] = c

Position(t, c) ==
    LET cs == childrenOf(t, Parent(t, c))
    IN  CHOOSE i \in 1..Len(cs) : cs[i] = c

RECURSIVE AncestorsOrSelf(_, _)
AncestorsOrSelf(t, n) ==
    IF n = 0 THEN {0} ELSE {n} \cup AncestorsOrSelf(t, Parent(t, n))

Descendants(t, n) == {d \in Nodes(t) : d # n /\ n \in AncestorsOrSelf(t, d)}

\* a comes before b: a is an ancestor of b, or a lies in a branch left of b's
DocBefore(t, a, b) ==
    /\ a # b
    /\ \/ a \in AncestorsOrSelf(t, b)
       \/ \E x \in AncestorsOrSelf(t, a) \ {0}, y \in AncestorsOrSelf(t, b) \ {0} :
            /\ x # y
            /\ Parent(t, x) = Parent(t, y)
            /\ Position(t, x) < Position(t, y)

Range(s) == {s[i] : i \in 1..Len(s)}

InDocumentOrder(t, s) == \A i, j \in 1..Len(s) : i < j => DocBefore(t, s[i], s[j])

Matching(t, n, p) == {d \in Descendants(t, n) : predicate(p, t.sel[d])}

-----------------------------------------------------------------------------
(* filterDescendants under test *)

IdleWalk == [t |-> NoTree, n |-> 0, selector |-> OtherSelector, state |-> "idle",
             result |-> <<>>, prev |-> <<>>]

InitWalk ==
    walk \in {[t |-> t, n |-> n, selector |-> s, state |-> "input",
               result |-> <<>>, prev |-> <<>>] :
                 t \in GeneratedTrees \cup SampleTrees, n \in 0..MaxNodes + 1, s \in ValidSelectors}
    /\ walk.n <= Len(walk.t.sel)

\* queryAll(selector).execute() on a handle that resolves to node n, run once and again
ExecuteQueryAll ==
    /\ walk.state \in {"input", "done"}
    /\ LET made == makeSelectorFunction(walk.selector)
       IN  walk' = [walk EXCEPT
                      !.state = IF walk.state = "input" THEN "done" ELSE "again",
                      !.prev = walk.result,
                      !.result = filterDescendants(walk.t, walk.n, made.predicate)]
    /\ UNCHANGED <<renderMaquetteFunction, produced, handle, last, sel, sim, mq>>

-----------------------------------------------------------------------------
(* The test projector and its handles.                                     *)
(*                                                                         *)
(* A handle is the chain of calls that built it: createQuery and           *)
(* createCollectionQuery keep nothing but the accessor closure of the      *)
(* handle they were called on, and the compiled predicate or the index.    *)
(* What a call returns or throws is an outcome; `calls` counts the calls   *)
(* of the producer function made on the way.                               *)

Producers == {"renderA", "renderB"}
Unset == "undefined"
FirstProducer == "renderA"

NoSelector == [type |-> "none", str |-> <<>>, fn |-> "none"]

RootHandle == [base |-> "root", steps |-> <<>>]      \* createQuery(getRootVNode)
StartHandle == [base |-> "start", steps |-> <<>>]    \* createQueryStart

Step(op, selector, index) == [op |-> op, selector |-> selector, index |-> index]

Extend(h, step) == [h EXCEPT !.steps = Append(h.steps, step)]

Front(s) == SubSeq(s, 1, Len(s) - 1)

GetterOf(h) == [h EXCEPT !.steps = Front(h.steps)]

LastStep(h) == h.steps[Len(h.steps)]

IsCollection(h) == h.steps # <<>> /\ LastStep(h).op = "queryAll"

Outcome(k, t, n, e, ns, b, h, calls) ==
    [k |-> k, t |-> t, n |-> n, e |-> e, ns |-> ns, b |-> b, h |-> h, calls |-> calls]

vnodeOut(t, n, calls) == Outcome("vnode", t, n, "", <<>>, FALSE, RootHandle, calls)
undefinedOut(calls) == Outcome("undefined", NoTree, 0, "", <<>>, FALSE, RootHandle, calls)
throwOut(e, calls) == Outcome("throw", NoTree, 0, e, <<>>, FALSE, RootHandle, calls)
listOut(t, ns, calls) == Outcome("list", t, 0, "", ns, FALSE, RootHandle, calls)
boolOut(b, calls) == Outcome("bool", NoTree, 0, "", <<>>, b, RootHandle, calls)
numberOut(n, calls) == Outcome("number", NoTree, n, "", <<>>, FALSE, RootHandle, calls)
valueOut(t, n, calls) == Outcome("value", t, n, "", <<>>, FALSE, RootHandle, calls)
handleOut(h) == Outcome("handle", NoTree, 0, "", <<>>, FALSE, h, 0)
noneOut == Outcome("none", NoTree, 0, "", <<>>, FALSE, RootHandle, 0)

\* a variant that resolves against the producer given to createTestProjector
getRootVNodeCaptured ==
    IF renderMaquetteFunction = Unset
    THEN throwOut("NotInitialized", 0)
    ELSE vnodeOut(produced[FirstProducer], 1, 1)

\* a variant without the guard: calling undefined is a TypeError
getRootVNodeUnguarded ==
    IF renderMaquetteFunction = Unset
    THEN throwOut("TypeError", 0)
    ELSE vnodeOut(produced[renderMaquetteFunction], 1, 1)

getRootVNode ==
    IF renderMaquetteFunction = Unset
    THEN throwOut("NotInitialized", 0)
    ELSE vnodeOut(produced[renderMaquetteFunction], 1, 1)

\* the accessor of createQueryStart: { children: [getRootVNode()] }
getStartVNode ==
    LET root == getRootVNode
    IN  IF root.k = "throw" THEN root ELSE vnodeOut(root.t, 0, root.calls)

\* filterDescendants(getVNode(), predicate) for the outcome r of getVNode()
descendantsOf(r, p) ==
    IF r.k = "throw" THEN r
    ELSE IF r.k = "undefined" THEN throwOut("TypeError", r.calls)
    ELSE listOut(r.t, filterDescendants(r.t, r.n, p), r.calls)

\* array[index]
elementAt(r, index) ==
    IF r.k = "throw" THEN r
    ELSE IF index < Len(r.ns) THEN vnodeOut(r.t, r.ns[index + 1], r.calls)
    ELSE undefinedOut(r.calls)

\* the check in getResult for the outcome r of getVNode()
checkResult(r) ==
    IF r.k = "undefined" THEN throwOut("NodeNotFound", r.calls) ELSE r

\* getResult().children[index] for the outcome r of getResult()
childAt(r, index) ==
    IF r.k = "throw" THEN r
    ELSE IF ~hasChildren(r.t, r.n) THEN throwOut("TypeError", r.calls)
    ELSE elementAt(listOut(r.t, childrenOf(r.t, r.n), r.calls), index)

RECURSIVE getVNode(_)
RECURSIVE getVNodes(_)

\* the accessor closure createQuery was given for handle h
getVNode(h) ==
    IF h.steps = <<>>
    THEN IF h.base = "root" THEN getRootVNode ELSE getStartVNode
    ELSE LET step == LastStep(h)
             getter == GetterOf(h)
         IN  CASE step.op = "query" ->
                    elementAt(descendantsOf(getVNode(getter), step.selector), 0)
               [] step.op = "getChild" ->
                    childAt(checkResult(getVNode(getter)), step.index)
               [] step.op = "getResult" ->
                    elementAt(getVNodes(getter), step.index)

\* the accessor closure createCollectionQuery was given for collection handle h
getVNodes(h) == descendantsOf(getVNode(GetterOf(h)), LastStep(h).selector)

getResult(h) == checkResult(getVNode(h))

execute(h) == getResult(h)

exists(h) ==
    LET r == getVNode(h)
    IN  IF r.k = "throw" THEN r ELSE boolOut(r.k = "vnode", r.calls)

\* the getters textContent, vnodeSelector, properties, children: a field of
\* getResult() (for textContent, the text collected below it)
readProperty(h) ==
    LET r == getResult(h)
    IN  IF r.k = "throw" THEN r ELSE valueOut(r.t, r.n, r.calls)

createCollectionQuery_execute(h) == getVNodes(h)

createCollectionQuery_length(h) ==
    LET r == getVNodes(h)
    IN  IF r.k = "throw" THEN r ELSE numberOut(Len(r.ns), r.calls)

\* a variant of query that resolves the node when the handle is built
queryEager(h, selector) ==
    LET made == makeSelectorFunction(selector)
        node == getVNode(h)
    IN  IF made.threw THEN throwOut("InvalidSelector", 0)
        ELSE IF node.k = "throw" THEN node
        ELSE [handleOut(Extend(h, Step("query", made.predicate, 0))) EXCEPT !.calls = node.calls]

query(h, selector) ==
    LET made == makeSelectorFunction(selector)
    IN  IF made.threw THEN throwOut("InvalidSelector", 0)
        ELSE handleOut(Extend(h, Step("query", made.predicate, 0)))

queryAll(h, selector) ==
    LET made == makeSelectorFunction(selector)
    IN  IF made.threw THEN throwOut("InvalidSelector", 0)
        ELSE handleOut(Extend(h, Step("queryAll", made.predicate, 0)))

getChild(h, index) == handleOut(Extend(h, Step("getChild", NoSelector, index)))

createCollectionQuery_getResult(h, index) ==
    handleOut(Extend(h, Step("getResult", NoSelector, index)))

-----------------------------------------------------------------------------
(* The calls a test makes on the projector and on the handle it holds *)

Called(op, selector, out) ==
    /\ last' = [op |-> op, selector |-> selector, out |-> out]
    /\ handle' = IF out.k = "handle" THEN out.h ELSE handle
    /\ UNCHANGED <<renderMaquetteFunction, produced>>

Stepped(op) == last' = [op |-> op, selector |-> NoSelector, out |-> noneOut]

Initialize(p) ==
    /\ renderMaquetteFunction' = p
    /\ Stepped("initialize")
    /\ UNCHANGED <<produced, handle, walk, sel, sim, mq>>

Uninitialize ==
    /\ renderMaquetteFunction' = Unset
    /\ Stepped("uninitialize")
    /\ UNCHANGED <<produced, handle, walk, sel, sim, mq>>

\* the application re-renders: producer p returns tree t from now on
Rerender(p, t) ==
    /\ produced[p] # t
    /\ produced' = [produced EXCEPT ![p] = t]
    /\ Stepped("rerender")
    /\ UNCHANGED <<renderMaquetteFunction, handle, walk, sel, sim, mq>>

\* projector.root
Root ==
    /\ handle # RootHandle
    /\ Called("root", NoSelector, handleOut(RootHandle))
    /\ UNCHANGED <<walk, sel, sim, mq>>

\* projector.query(selector)
ProjectorQuery(selector) ==
    /\ Called("query", selector, query(StartHandle, selector))
    /\ UNCHANGED <<walk, sel, sim, mq>>

\* projector.queryAll(selector)
ProjectorQueryAll(selector) ==
    /\ Called("queryAll", selector, queryAll(StartHandle, selector))
    /\ UNCHANGED <<walk, sel, sim, mq>>

Query(selector) ==
    /\ ~IsCollection(handle)
    /\ Len(handle.steps) < MaxChain
    /\ Called("query", selector, query(handle, selector))
    /\ UNCHANGED <<walk, sel, sim, mq>>

QueryAll(selector) ==
    /\ ~IsCollection(handle)
    /\ Len(handle.steps) < MaxChain
    /\ Called("queryAll", selector, queryAll(handle, selector))
    /\ UNCHANGED <<walk, sel, sim, mq>>

GetChild(index) ==
    /\ ~IsCollection(handle)
    /\ Len(handle.steps) < MaxChain
    /\ Called("getChild", NoSelector, getChild(handle, index))
    /\ UNCHANGED <<walk, sel, sim, mq>>

GetResult(index) ==
    /\ IsCollection(handle)
    /\ Called("getResult", NoSelector, createCollectionQuery_getResult(handle, index))
    /\ UNCHANGED <<walk, sel, sim, mq>>

Execute ==
    /\ ~IsCollection(handle)
    /\ Called("execute", NoSelector, execute(handle))
    /\ UNCHANGED <<walk, sel, sim, mq>>

Exists ==
    /\ ~IsCollection(handle)
    /\ Called("exists", NoSelector, exists(handle))
    /\ UNCHANGED <<walk, sel, sim, mq>>

ReadProperty(name) ==
    /\ ~IsCollection(handle)
    /\ Called(name, NoSelector, readProperty(handle))
    /\ UNCHANGED <<walk, sel, sim, mq>>

ExecuteAll ==
    /\ IsCollection(handle)
    /\ Called("executeAll", NoSelector, createCollectionQuery_execute(handle))
    /\ UNCHANGED <<walk, sel, sim, mq>>

Length ==
    /\ IsCollection(handle)
    /\ Called("length", NoSelector, createCollectionQuery_length(handle))
    /\ UNCHANGED <<walk, sel, sim, mq>>

PropertyNames == {"textContent", "vnodeSelector", "properties", "children"}

ForcingOps == {"execute"} \cup PropertyNames
ResolvingOps == ForcingOps \cup {"exists", "executeAll", "length"}
ConstructingOps == {"query", "queryAll", "getChild", "getResult"}

-----------------------------------------------------------------------------
(* The simulator of query.ts.  A node's properties are undefined or hold a *)
(* subset of the handlers; a handler, when invoked, does nothing or calls  *)
(* preventDefault or stopPropagation on the event it is given.  An event   *)
(* object has an identity, `id`, the order of its creation within a call.  *)

HandlerNames == {"onkeydown", "onkeyup", "onmousedown", "onmouseup",
                 "oninput", "onchange", "onfocus", "onblur"}
Behaviours == {"none", "preventDefault", "stopPropagation"}
KeyCodes == {13, 65}
Targets == {{}, {"inputA"}}                 \* targetElement: undefined or an object
Values == {<<>>, <<"a">>}                   \* '' and 'a'
NoParameters == [given |-> FALSE, pageX |-> {}, pageY |-> {}]
Parameters ==
    {NoParameters} \cup {[given |-> TRUE, pageX |-> x, pageY |-> y] : x \in {{}, {10}}, y \in {{}, {20}}}

NoProperties == [defined |-> FALSE, present |-> {}, behaviour |-> "none"]
AllProperties ==
    {NoProperties}
    \cup {[defined |-> TRUE, present |-> hs, behaviour |-> b] :
            hs \in SUBSET HandlerNames, b \in Behaviours}

createEvent(id, target) ==
    [id |-> id, target |-> target, which |-> {}, pageX |-> {}, pageY |-> {},
     defaultPrevented |-> FALSE, propagationStopped |-> FALSE]

createKeyEvent(id, which, target) == [createEvent(id, target) EXCEPT !.which = {which}]

createMouseEvent(id, target, parameters) ==
    IF parameters.given
    THEN [createEvent(id, target) EXCEPT !.pageX = parameters.pageX, !.pageY = parameters.pageY]
    ELSE createEvent(id, target)

createFocusEvent(id, target) == createEvent(id, target)

\* the event after the handler has run
Handled(behaviour, event) ==
    CASE behaviour = "preventDefault" -> [event EXCEPT !.defaultPrevented = TRUE]
      [] behaviour = "stopPropagation" -> [event EXCEPT !.propagationStopped = TRUE]
      [] OTHER -> event

Invocation(name, event, value) == [handler |-> name, event |-> event, value |-> value]

CallResult(threw, log, returned) == [threw |-> threw, log |-> log, returned |-> returned]

\* properties.on...(event); return event
dispatch(properties, name, event) ==
    IF ~properties.defined \/ name \notin properties.present
    THEN CallResult(TRUE, <<>>, {})
    ELSE CallResult(FALSE, <<Invocation(name, event, {})>>,
                    {Handled(properties.behaviour, event)})

keyDown(properties, keyCode, targetElement) ==
    dispatch(properties, "onkeydown", createKeyEvent(1, keyCode, targetElement))

\* a variant of keyUp that fires the keydown handler
keyUpAsKeyDown(properties, keyCode, targetElement) ==
    dispatch(properties, "onkeydown", createKeyEvent(1, keyCode, targetElement))

keyUp(properties, keyCode, targetElement) ==
    dispatch(properties, "onkeyup", createKeyEvent(1, keyCode, targetElement))

mouseDown(properties, targetElement, parameters) ==
    dispatch(properties, "onmousedown", createMouseEvent(1, targetElement, parameters))

mouseUp(properties, targetElement, parameters) ==
    dispatch(properties, "onmouseup", createMouseEvent(1, targetElement, parameters))

input(properties, targetElement) ==
    dispatch(properties, "oninput", createEvent(1, targetElement))

change(properties, targetElement) ==
    dispatch(properties, "onchange", createEvent(1, targetElement))

focus(properties, targetElement) ==
    dispatch(properties, "onfocus", createFocusEvent(1, targetElement))

blur(properties, targetElement) ==
    dispatch(properties, "onblur", createFocusEvent(1, targetElement))

\* keyPress: reading properties.onkeydown of undefined properties is a TypeError,
\* thrown after the first assignment to targetElement.value
keyPress(properties, keyCode, valueBefore, valueAfter, targetElement) ==
    LET target == IF targetElement = {} THEN {"fresh"} ELSE targetElement
    IN  IF ~properties.defined
        THEN [threw |-> TRUE, log |-> <<>>, returned |-> {}, target |-> target,
              value |-> {valueBefore}]
        ELSE LET down == IF "onkeydown" \in properties.present
                         THEN <<Invocation("onkeydown", createKeyEvent(1, keyCode, target),
                                           {valueBefore})>>
                         ELSE <<>>
                 up == IF "onkeyup" \in properties.present
                       THEN <<Invocation("onkeyup",
                                         createKeyEvent(Len(down) + 1, keyCode, target),
                                         {valueAfter})>>
                       ELSE <<>>
                 inp == IF "oninput" \in properties.present
                        THEN <<Invocation("oninput",
                                          createEvent(Len(down) + Len(up) + 1, target),
                                          {valueAfter})>>
                        ELSE <<>>
             IN  [threw |-> FALSE, log |-> down \o up \o inp, returned |-> {},
                  target |-> target, value |-> {valueAfter}]

NoCall == [method |-> "none", keyCode |-> {}, targetElement |-> {}, parameters |-> NoParameters,
           valueBefore |-> {}, valueAfter |-> {}, threw |-> FALSE, log |-> <<>>,
           returned |-> {}, target |-> {}, value |-> {}]

IdleSim == [properties |-> NoProperties, call |-> NoCall]

InitSim == sim \in {[properties |-> ps, call |-> NoCall] : ps \in AllProperties}

SimUnchanged == UNCHANGED <<renderMaquetteFunction, produced, handle, last, walk, sel, mq>>

SimCalled(method, keyCode, targetElement, parameters, r) ==
    sim' = [sim EXCEPT !.call = [NoCall EXCEPT !.method = method,
                                               !.keyCode = keyCode,
                                               !.targetElement = targetElement,
                                               !.parameters = parameters,
                                               !.threw = r.threw,
                                               !.log = r.log,
                                               !.returned = r.returned]]

KeyDown(keyCode, t) ==
    /\ SimCalled("keyDown", {keyCode}, t, NoParameters, keyDown(sim.properties, keyCode, t))
    /\ SimUnchanged

KeyUp(keyCode, t) ==
    /\ SimCalled("keyUp", {keyCode}, t, NoParameters, keyUp(sim.properties, keyCode, t))
    /\ SimUnchanged

MouseDown(t, ps) ==
    /\ SimCalled("mouseDown", {}, t, ps, mouseDown(sim.properties, t, ps))
    /\ SimUnchanged

MouseUp(t, ps) ==
    /\ SimCalled("mouseUp", {}, t, ps, mouseUp(sim.properties, t, ps))
    /\ SimUnchanged

Input(t) ==
    /\ SimCalled("input", {}, t, NoParameters, input(sim.properties, t))
    /\ SimUnchanged

Change(t) ==
    /\ SimCalled("change", {}, t, NoParameters, change(sim.properties, t))
    /\ SimUnchanged

Focus(t) ==
    /\ SimCalled("focus", {}, t, NoParameters, focus(sim.properties, t))
    /\ SimUnchanged

Blur(t) ==
    /\ SimCalled("blur", {}, t, NoParameters, blur(sim.properties, t))
    /\ SimUnchanged

KeyPress(keyCode, valueBefore, valueAfter, t) ==
    LET r == keyPress(sim.properties, keyCode, valueBefore, valueAfter, t)
    IN  /\ SimUnchanged
        /\ sim' = [sim EXCEPT !.call = [NoCall EXCEPT !.method = "keyPress",
                                                   !.keyCode = {keyCode},
                                                   !.targetElement = t,
                                                   !.valueBefore = {valueBefore},
                                                   !.valueAfter = {valueAfter},
                                                   !.threw = r.threw,
                                                   !.log = r.log,
                                                   !.returned = r.returned,
                                                   !.target = r.target,
                                                   !.value = r.value]]

-----------------------------------------------------------------------------
(* The MaquetteQuery object of query.ts: query(vnodeTree) for node n of a  *)
(* tree, with the `children` variable its getter closes over.  An array,   *)
(* empty or not, is truthy; undefined is falsy.                            *)

RECURSIVE query_findAll(_, _, _)
RECURSIVE query_findAllEach(_, _, _)

query_findAllEach(t, cs, p) ==
    IF cs = <<>> THEN <<>>
    ELSE query_findAll(t, Head(cs), p) \o query_findAllEach(t, Tail(cs), p)

\* findAll(selector, vnodeTree, results): the nodes wrapped and pushed to results
query_findAll(t, vnodeTree, p) ==
    (IF predicate(p, t.sel[vnodeTree]) THEN <<vnodeTree>> ELSE <<>>)
    \o (IF hasChildren(t, vnodeTree) THEN query_findAllEach(t, childrenOf(t, vnodeTree), p)
        ELSE <<>>)

ArrayValue(items) == [defined |-> TRUE, items |-> items]
UndefinedValue == [defined |-> FALSE, items |-> <<>>]
Truthy(v) == v.defined

\* query(vnodeTree): the object and the empty array its children variable starts as
query_query(t, n) ==
    [t |-> t, n |-> n, children |-> ArrayValue(<<>>), op |-> "query",
     threw |-> FALSE, result |-> <<>>]

\* get children() { return children || (children = vnodeTree.children.map(query)); }
query_children(q) ==
    IF Truthy(q.children)
    THEN [q EXCEPT !.op = "children", !.threw = FALSE, !.result = q.children.items]
    ELSE IF ~hasChildren(q.t, q.n)
    THEN [q EXCEPT !.op = "children", !.threw = TRUE, !.result = <<>>]
    ELSE [q EXCEPT !.op = "children", !.threw = FALSE,
                   !.children = ArrayValue(childrenOf(q.t, q.n)),
                   !.result = childrenOf(q.t, q.n)]

IdleMq == query_query(NoTree, 0)

InitMq ==
    mq \in {query_query(t, n) : t \in GeneratedTrees \cup SampleTrees, n \in 1..MaxNodes + 1}
    /\ mq.n <= Len(mq.t.sel)

MqUnchanged == UNCHANGED <<renderMaquetteFunction, produced, handle, last, walk, sel, sim>>

ReadChildren ==
    /\ mq' = query_children(mq)
    /\ MqUnchanged

FindAll(selector) ==
    LET made == query_makeSelectorFunction(selector)
    IN  /\ mq' = [mq EXCEPT !.op = "findAll", !.threw = made.threw,
                            !.result = IF made.threw THEN <<>>
                                       ELSE query_findAll(mq.t, mq.n, made.predicate)]
        /\ MqUnchanged

\* find: findAll(...)[0], the empty sequence standing for undefined
Find(selector) ==
    LET made == query_makeSelectorFunction(selector)
        all == IF made.threw THEN <<>> ELSE query_findAll(mq.t, mq.n, made.predicate)
    IN  /\ mq' = [mq EXCEPT !.op = "find", !.threw = made.threw,
                            !.result = IF all = <<>> THEN <<>> ELSE <<all[1]>>]
        /\ MqUnchanged

-----------------------------------------------------------------------------
(* Specifications *)

NoLast == [op |-> "none", selector |-> NoSelector, out |-> noneOut]

\* createTestProjector(renderMaquetteFunction?)
Init ==
    /\ renderMaquetteFunction \in {Unset, FirstProducer}
    /\ produced \in [Producers -> SampleTrees]
    /\ handle = RootHandle
    /\ last = NoLast
    /\ walk = IdleWalk
    /\ sel = IdleSel
    /\ sim = IdleSim
    /\ mq = IdleMq

Next ==
    \/ \E p \in Producers : Initialize(p)
    \/ Uninitialize
    \/ \E p \in Producers, t \in SampleTrees : Rerender(p, t)
    \/ Root
    \/ \E s \in SampleSelectors : ProjectorQuery(s)
    \/ \E s \in SampleSelectors : ProjectorQueryAll(s)
    \/ \E s \in SampleSelectors : Query(s)
    \/ \E s \in SampleSelectors : QueryAll(s)
    \/ \E i \in 0..MaxIndex : GetChild(i)
    \/ \E i \in 0..MaxIndex : GetResult(i)
    \/ Execute
    \/ Exists
    \/ \E name \in PropertyNames : ReadProperty(name)
    \/ ExecuteAll
    \/ Length

Spec == Init /\ [][Next]_vars

\* no projector: the other parts of the model are checked on their own
NoProjector ==
    /\ renderMaquetteFunction = Unset
    /\ produced = [p \in Producers |-> NoTree]
    /\ handle = RootHandle
    /\ last = NoLast

SelInit ==
    /\ NoProjector
    /\ InitSel
    /\ walk = IdleWalk
    /\ sim = IdleSim
    /\ mq = IdleMq

SelNext == ApplySelector

SpecSel == SelInit /\ [][SelNext]_vars

WalkInit ==
    /\ NoProjector
    /\ InitWalk
    /\ sel = IdleSel
    /\ sim = IdleSim
    /\ mq = IdleMq

WalkNext == ExecuteQueryAll

SpecWalk == WalkInit /\ [][WalkNext]_vars

SimInit ==
    /\ NoProjector
    /\ InitSim
    /\ walk = IdleWalk
    /\ sel = IdleSel
    /\ mq = IdleMq

SimNext ==
    \/ \E k \in KeyCodes, t \in Targets : KeyDown(k, t)
    \/ \E k \in KeyCodes, t \in Targets : KeyUp(k, t)
    \/ \E t \in Targets, ps \in Parameters : MouseDown(t, ps)
    \/ \E t \in Targets, ps \in Parameters : MouseUp(t, ps)
    \/ \E t \in Targets : Input(t)
    \/ \E t \in Targets : Change(t)
    \/ \E t \in Targets : Focus(t)
    \/ \E t \in Targets : Blur(t)
    \/ \E k \in KeyCodes, b \in Values, a \in Values, t \in Targets : KeyPress(k, b, a, t)

SpecSim == SimInit /\ [][SimNext]_vars

MqInit ==
    /\ NoProjector
    /\ InitMq
    /\ walk = IdleWalk
    /\ sel = IdleSel
    /\ sim = IdleSim

MqNext ==
    \/ ReadChildren
    \/ \E s \in SampleSelectors : FindAll(s)
    \/ \E s \in SampleSelectors : Find(s)

SpecQuery == MqInit /\ [][MqNext]_vars

-----------------------------------------------------------------------------
(* What a handle denotes in a tree, stated from document order: the set    *)
(* holding the node it resolves to, empty when it resolves to none.        *)

FirstOf(t, S) == {m \in S : \A x \in S \ {m} : DocBefore(t, m, x)}

\* the element of S that has exactly `index` elements of S before it
NthOf(t, S, index) == {m \in S : Cardinality({x \in S : DocBefore(t, x, m)}) = index}

ChildrenSet(t, n) == {c \in Nodes(t) : Parent(t, c) = n}

RECURSIVE Denotes(_, _)
Denotes(h, t) ==
    IF h.steps = <<>>
    THEN IF h.base = "root" THEN {1} ELSE {0}
    ELSE LET step == LastStep(h)
             getter == GetterOf(h)
         IN  CASE step.op = "query" ->
                    UNION {FirstOf(t, Matching(t, n, step.selector)) : n \in Denotes(getter, t)}
               [] step.op = "getChild" ->
                    UNION {{c \in ChildrenSet(t, n) : Position(t, c) = step.index + 1} :
                           n \in Denotes(getter, t)}
               [] step.op = "getResult" ->
                    UNION {NthOf(t, Matching(t, n, LastStep(getter).selector), step.index) :
                           n \in Denotes(GetterOf(getter), t)}

\* the nodes a collection handle denotes
DenotesAll(h, t) ==
    UNION {Matching(t, n, LastStep(h).selector) : n \in Denotes(GetterOf(h), t)}

-----------------------------------------------------------------------------
(* Claims *)

\* C1: queryAll(S).execute() on a handle that resolves to node N is exactly the
\* proper descendants of N that satisfy S, in pre-order document order, without N
\* itself; running it again on the unchanged tree gives the same sequence; on the
\* tree div > [div.here, div > [div.here.too, div.and.here.too]] with '.here' it
\* is div.here, div.here.too, div.and.here.too.
C1_QueryAllPreOrder ==
    walk.state \in {"done", "again"} =>
        LET t == walk.t
            r == walk.result
        IN  /\ Range(r) = Matching(t, walk.n, walk.selector)
            /\ InDocumentOrder(t, r)
            /\ walk.n \notin Range(r)
            /\ (walk.state = "again" => walk.prev = r)
            /\ (t = ExampleTree /\ walk.n = 1 /\ walk.selector = StringSelector(Here)
                  => [i \in 1..Len(r) |-> t.sel[r[i]]] = <<DivHere, DivHereToo, DivAndHereToo>>)

C1_Witness ==
    /\ walk.state = "again"
    /\ walk.t = ExampleTree
    /\ walk.n = 1
    /\ walk.selector = StringSelector(Here)
    /\ walk.result = <<2, 4, 5>>

Boundary(v, k) == k >= Len(v) \/ v[k + 1] \in {".", "#"}

\* P is one of the whole fragments of the selector v
WholeFragment(P, v) ==
    IF P # <<>> /\ P[1] \in {".", "#"}
    THEN \E i \in 1..(Len(v) - Len(P)) : SubSeq(v, i + 1, i + Len(P)) = P /\ Boundary(v, i + Len(P))
    ELSE Len(P) <= Len(v) /\ SubSeq(v, 1, Len(P)) = P /\ Boundary(v, Len(P))

\* C2: a string pattern P matches a node exactly when P is one of the whole
\* fragments of the node's selector: for '.class' / '#id', P occurs at some index > 0
\* followed by the end, '.' or '#'; for a bare tag, the selector starts with P
\* followed by the end, '.' or '#'.
C2_ExactFragment ==
    (sel.state = "done" /\ sel.selector.type = "string")
        => (sel.matched <=> WholeFragment(sel.selector.str, sel.vnodeSelector))

\* C3: exists() never throws: on an initialized projector it returns a boolean, true
\* exactly when the handle resolves to a node, whatever the handles earlier in its
\* chain match.
C3_ExistsNeverThrows ==
    (last.op = "exists" /\ renderMaquetteFunction # Unset)
        => /\ last.out.k = "bool"
           /\ last.out.b <=> Denotes(handle, produced[renderMaquetteFunction]) # {}

\* C4: execute() and the property reads fail with NodeNotFound exactly when the
\* handle resolves to no node, with no other error kind; otherwise execute()
\* returns the node the handle resolves to.
C4_NodeNotFoundExactly ==
    (last.op \in ForcingOps /\ renderMaquetteFunction # Unset)
        => LET d == Denotes(handle, produced[renderMaquetteFunction])
           IN  /\ last.out.k = "throw" <=> d = {}
               /\ last.out.k = "throw" => last.out.e = "NodeNotFound"
               /\ last.out.k # "throw" => d = {last.out.n}

\* C5: every resolution of a handle is computed from the tree that the producer
\* bound at that moment returns, whenever the handle was created and whatever was
\* bound or rendered before.
C5_Freshness ==
    (last.op \in ResolvingOps /\ renderMaquetteFunction # Unset)
        => LET t == produced[renderMaquetteFunction]
               o == last.out
           IN  /\ o.k \in {"vnode", "value"} => o.t = t /\ Denotes(handle, t) = {o.n}
               /\ o.k = "bool" => (o.b <=> Denotes(handle, t) # {})
               /\ o.k = "list" => /\ o.t = t
                                  /\ Range(o.ns) = DenotesAll(handle, t)
                                  /\ InDocumentOrder(t, o.ns)
               /\ o.k = "number" => o.n = Cardinality(DenotesAll(handle, t))
               /\ o.k = "throw" /\ ~IsCollection(handle) => Denotes(handle, t) = {}
               /\ o.calls = 1

C5_Witness ==
    /\ last.op = "execute"
    /\ renderMaquetteFunction = "renderB"
    /\ produced["renderB"] = ExampleTree
    /\ produced["renderA"] = TextTree
    /\ Len(handle.steps) = MaxChain
    /\ last.out.k = "vnode"
    /\ last.out.n = 4

\* C6: while the producer is unset every forced resolution fails with
\* NotInitialized, also for handles created while it was set; once a producer is
\* bound again no resolution fails with NotInitialized.
C6_NotInitialized ==
    last.op \in ResolvingOps
        => /\ (renderMaquetteFunction = Unset)
                <=> (last.out.k = "throw" /\ last.out.e = "NotInitialized")
           /\ (renderMaquetteFunction # Unset /\ last.out.k \in {"vnode", "value", "list"})
                => last.out.t = produced[renderMaquetteFunction]

C6_Witness ==
    /\ renderMaquetteFunction = Unset
    /\ last.op = "vnodeSelector"
    /\ Len(handle.steps) = MaxChain
    /\ last.out.e = "NotInitialized"

\* C9: building a handle never calls the producer or a parent accessor and never
\* fails with NodeNotFound or NotInitialized; query and queryAll throw
\* InvalidSelector exactly when the selector is neither a string nor a function,
\* and getChild and getResult never throw.
C9_LazyConstruction ==
    (last.op \in ConstructingOps)
        => /\ last.out.calls = 0
           /\ last.out.k \in {"handle", "throw"}
           /\ last.out.k = "throw"
                <=> (last.op \in {"query", "queryAll"} /\ last.selector.type \notin {"string", "function"})
           /\ last.out.k = "throw" => last.out.e = "InvalidSelector"
           /\ last.out.k = "handle" => handle = last.out.h

C9_Witness ==
    /\ renderMaquetteFunction = Unset
    /\ last.op = "query"
    /\ last.out.k = "handle"
    /\ Len(handle.steps) = MaxChain
    /\ handle.steps[1].op = "getChild"

KeyPressOrder == <<"onkeydown", "onkeyup", "oninput">>

\* C7: keyPress sets the value to valueBefore, fires onkeydown (if present) with
\* which = keyCode, sets the value to valueAfter, fires onkeyup (if present) with
\* which = keyCode and oninput (if present) with a generic event, each at most once
\* and in this order, and for every subset of absent handlers no error occurs.
C7_KeyPressSequence ==
    sim.call.method = "keyPress" =>
        LET c == sim.call
            IsPresent(h) == h \in sim.properties.present
        IN  /\ ~c.threw
            /\ [i \in 1..Len(c.log) |-> c.log[i].handler] = SelectSeq(KeyPressOrder, IsPresent)
            /\ \A i \in 1..Len(c.log) :
                 LET e == c.log[i]
                 IN  /\ e.handler = "onkeydown" => e.value = c.valueBefore /\ e.event.which = c.keyCode
                     /\ e.handler = "onkeyup" => e.value = c.valueAfter /\ e.event.which = c.keyCode
                     /\ e.handler = "oninput" => e.value = c.valueAfter /\ e.event.which = {}
            /\ c.value = c.valueAfter

HandlerOf(method) ==
    CASE method = "keyDown" -> "onkeydown"
      [] method = "keyUp" -> "onkeyup"
      [] method = "mouseDown" -> "onmousedown"
      [] method = "mouseUp" -> "onmouseup"
      [] method = "input" -> "oninput"
      [] method = "change" -> "onchange"
      [] method = "focus" -> "onfocus"
      [] method = "blur" -> "onblur"

SingleMethods == {"keyDown", "keyUp", "mouseDown", "mouseUp", "input", "change", "focus", "blur"}

\* C8: a single-action dispatch returns an event exactly when the node has the
\* matching handler; then that handler and no other was invoked once, with the
\* returned event object, whose target is the target argument, whose flags start
\* false, with which = keyCode for key events and pageX / pageY as supplied for
\* mouse events (undefined without parameters); without the handler the call throws.
C8_SingleDispatch ==
    sim.call.method \in SingleMethods =>
        LET c == sim.call
            h == HandlerOf(c.method)
        IN  /\ c.returned # {} <=> (sim.properties.defined /\ h \in sim.properties.present)
            /\ c.returned = {} <=> c.threw
            /\ c.threw => c.log = <<>>
            /\ \A ev \in c.returned :
                 /\ Len(c.log) = 1
                 /\ c.log[1].handler = h
                 /\ c.log[1].event.id = ev.id
                 /\ ev.target = c.targetElement
                 /\ c.log[1].event.target = c.targetElement
                 /\ ~c.log[1].event.defaultPrevented
                 /\ ~c.log[1].event.propagationStopped
                 /\ ev.which = c.keyCode
                 /\ ev.pageX = c.parameters.pageX
                 /\ ev.pageY = c.parameters.pageY
                 /\ c.log[1].event.which = ev.which
                 /\ c.log[1].event.pageX = ev.pageX
                 /\ c.log[1].event.pageY = ev.pageY

C8_Witness ==
    /\ sim.call.method = "mouseDown"
    /\ sim.call.targetElement = {"inputA"}
    /\ sim.call.parameters = [given |-> TRUE, pageX |-> {10}, pageY |-> {20}]
    /\ \E ev \in sim.call.returned : ev.pageX = {10} /\ ev.pageY = {20} /\ ev.defaultPrevented

\* C10: reading children of query(tree) over a node with n children returns n
\* handles in child order, the i-th wrapping the i-th child, built on the first read
\* and cached for the later reads.
C10_ChildrenWrapped ==
    (mq.op = "children" /\ hasChildren(mq.t, mq.n))
        => /\ ~mq.threw
           /\ mq.result = childrenOf(mq.t, mq.n)
           /\ mq.children = ArrayValue(mq.result)

====
